---- MODULE Spec2Model ----
(***************************************************************************)
(* The online-mode login handshake of gomcbot (src/login.go): parsing the  *)
(* server's encryption request, the signed-hex auth digest, the session    *)
(* join call, the RSA key-exchange response and the AES/CFB8 cipher pair.  *)
(*                                                                         *)
(* Byte strings and Go strings are sequences of bytes (0..255); text that  *)
(* is only ever compared or concatenated (error messages, hex output) is a *)
(* sequence of one-character strings.  A Go pointer or error that may be   *)
(* nil is the empty tuple <<>> when nil and <<v>> when it holds v.         *)
(***************************************************************************)
EXTENDS Integers, Sequences, FiniteSets, TLC

VARIABLES
    packet,       \* p.Data: payload of the encryption-request packet
    unpacked,     \* result of unpackEncryptionRequest: <<>> before the call
    hash,         \* authDigest: the SHA-1 sum h.Sum(nil)
    res,          \* authDigest: the returned string, <<>> before the call
    outcome,      \* what client.Do(PostRequest) produced, <<>> before the call
    PostRequest,  \* the request loginAuth issued, <<>> before the call
    loginErr,     \* result of loginAuth: <<>> before the call
    erp,          \* result of genEncryptionKeyResponse, <<>> before the call
    key,          \* newSymmetricEncryption: the generated key, <<>> before
    encoStream,   \* newSymmetricEncryption: the CFB8 encrypt stream
    decoStream,   \* newSymmetricEncryption: the CFB8 decrypt stream
    plain,        \* bytes fed to encoStream so far
    wire,         \* ciphertext produced by encoStream so far
    decoded,      \* bytes produced by decoStream so far
    steps         \* the handshake steps performed so far, in order

parseVars  == <<packet, unpacked>>
digestVars == <<hash, res>>
authVars   == <<outcome, PostRequest, loginErr>>
cipherVars == <<key, encoStream, decoStream>>
flowVars   == <<plain, wire, decoded>>
vars == <<packet, unpacked, hash, res, outcome, PostRequest, loginErr, erp,
          key, encoStream, decoStream, plain, wire, decoded, steps>>

Nil == <<>>
Some(x) == <<x>>

(***************************************************************************)
(* Bytes                                                                   *)
(***************************************************************************)
Pow2(n) == 2 ^ n

RECURSIVE XorBits(_, _, _)
XorBits(a, b, n) ==
    IF n = 0 THEN 0
    ELSE ((a + b) % 2) + 2 * XorBits(a \div 2, b \div 2, n - 1)

\* a ^ b on bytes
XorByte(a, b) == XorBits(a, b, 8)

RECURSIVE SumSeq(_)
SumSeq(s) == IF s = <<>> THEN 0 ELSE Head(s) + SumSeq(Tail(s))

(***************************************************************************)
(* The packet codec (package packet of the repository, consumed by         *)
(* login.go): variable-length integers and length-prefixed byte strings.   *)
(***************************************************************************)
MalformedPacket(field) == [kind |-> "MalformedPacket", field |-> field]

\* One 7-bit group of a VarInt at position i (0-based); the fifth group
\* keeps the four bits that fit an int32, the top one being the sign.
VarIntGroup(b, i) ==
    IF i < 4 THEN (b % 128) * Pow2(7 * i)
    ELSE IF (b \div 8) % 2 = 1 THEN (((b % 8) * Pow2(28)) - Pow2(30)) - Pow2(30)
    ELSE (b % 8) * Pow2(28)

RECURSIVE UnpackVarIntFrom(_, _, _)
UnpackVarIntFrom(r, i, acc) ==
    IF r = <<>> THEN [ok |-> FALSE, val |-> 0, rest |-> r]
    ELSE LET sec == Head(r)
             n   == acc + VarIntGroup(sec, i)
         IN  IF sec < 128 THEN [ok |-> TRUE, val |-> n, rest |-> Tail(r)]
             ELSE IF i = 4 THEN [ok |-> FALSE, val |-> 0, rest |-> Tail(r)]
             ELSE UnpackVarIntFrom(Tail(r), i + 1, n)

\* pk.UnpackVarInt(r): an int32 of at most five bytes, 7 bits each,
\* least-significant group first, bit 0x80 set on every byte but the last.
UnpackVarInt(r) == UnpackVarIntFrom(r, 0, 0)

RECURSIVE PackVarIntNat(_)
PackVarIntNat(n) ==
    IF n < 128 THEN <<n>>
    ELSE <<128 + (n % 128)>> \o PackVarIntNat(n \div 128)

\* pk.PackVarInt(n) for the non-negative lengths login.go passes
PackVarInt(n) == PackVarIntNat(n)

\* pk.ReadNBytes(r, n): exactly n bytes or a failure, never fewer
ReadNBytes(r, n) ==
    IF n < 0 \/ n > Len(r) THEN [ok |-> FALSE, bs |-> <<>>, rest |-> r]
    ELSE [ok |-> TRUE, bs |-> SubSeq(r, 1, n), rest |-> SubSeq(r, n + 1, Len(r))]

\* UTF-8 well-formedness, one- and two-byte forms (the longer forms need
\* lead bytes 0xE0.. that are decoded the same way).
RECURSIVE Utf8Valid(_)
Utf8Valid(bs) ==
    IF bs = <<>> THEN TRUE
    ELSE IF Head(bs) < 128 THEN Utf8Valid(Tail(bs))
    ELSE IF Head(bs) >= 194 /\ Head(bs) <= 223 /\ Len(bs) >= 2
            /\ bs[2] >= 128 /\ bs[2] <= 191
         THEN Utf8Valid(Tail(Tail(bs)))
    ELSE FALSE

\* pk.UnpackString(r): a VarInt byte count, then that many bytes of UTF-8
UnpackString(r) ==
    LET l == UnpackVarInt(r)
        b == ReadNBytes(l.rest, l.val)
    IN  IF ~l.ok THEN [ok |-> FALSE, s |-> <<>>, rest |-> l.rest]
        ELSE IF ~b.ok \/ ~Utf8Valid(b.bs) THEN [ok |-> FALSE, s |-> <<>>, rest |-> b.rest]
        ELSE [ok |-> TRUE, s |-> b.bs, rest |-> b.rest]

\* pk.PackString(s)
PackString(s) == PackVarInt(Len(s)) \o s

(***************************************************************************)
(* unpackEncryptionRequest                                                 *)
(***************************************************************************)
encryptionRequest(serverID, publicKey, verifyToken) ==
    [ServerID |-> serverID, PublicKey |-> publicKey, VerifyToken |-> verifyToken]

UnpackFail(field) == [er |-> Nil, err |-> Some(MalformedPacket(field))]

\* the variant that drops the error of the public-key read and keeps
\* whatever bytes were there
unpackEncryptionRequest_IgnoreReadErr(p) ==
    LET sid == UnpackString(p)
        pkl == UnpackVarInt(sid.rest)
        n   == IF pkl.val < 0 THEN 0
               ELSE IF pkl.val > Len(pkl.rest) THEN Len(pkl.rest) ELSE pkl.val
        pkb == ReadNBytes(pkl.rest, n)
        vtl == UnpackVarInt(pkb.rest)
        vtb == ReadNBytes(vtl.rest, vtl.val)
    IN  IF ~sid.ok THEN UnpackFail("serverId")
        ELSE IF ~pkl.ok THEN UnpackFail("publicKey")
        ELSE IF ~vtl.ok THEN UnpackFail("verifyToken")
        ELSE IF ~vtb.ok THEN UnpackFail("verifyToken")
        ELSE [er |-> Some(encryptionRequest(sid.s, pkb.bs, vtb.bs)), err |-> Nil]

unpackEncryptionRequest(p) ==
    LET sid == UnpackString(p)
        pkl == UnpackVarInt(sid.rest)
        pkb == ReadNBytes(pkl.rest, pkl.val)
        vtl == UnpackVarInt(pkb.rest)
        vtb == ReadNBytes(vtl.rest, vtl.val)
    IN  IF ~sid.ok THEN UnpackFail("serverId")
        ELSE IF ~pkl.ok THEN UnpackFail("publicKey")
        ELSE IF ~pkb.ok THEN UnpackFail("publicKey")
        ELSE IF ~vtl.ok THEN UnpackFail("verifyToken")
        ELSE IF ~vtb.ok THEN UnpackFail("verifyToken")
        ELSE [er |-> Some(encryptionRequest(sid.s, pkb.bs, vtb.bs)), err |-> Nil]

(***************************************************************************)
(* authDigest                                                              *)
(***************************************************************************)
\* Stand-in for sha1.Size (20): the number of bytes of a digest.
DigestLen == 2

\* Stand-in for crypto/sha1: a deterministic checksum of the bytes written,
\* DigestLen bytes long.  Only the digest's dependence on every byte written
\* is used; no claim rests on its values.
Sha1Sum(msg) ==
    [i \in 1..DigestLen |->
        (SumSeq([j \in 1..Len(msg) |-> (msg[j] + 1) * (i + j)]) + 103 * i + Len(msg)) % 256]

\* the variant that inverts the bytes and adds nothing
twosComplement_NoCarry(p) == [i \in 1..Len(p) |-> 255 - p[i]]

RECURSIVE twosComplementFrom(_, _, _)
twosComplementFrom(p, i, carry) ==
    IF i = 0 THEN p
    ELSE LET inv == 255 - p[i]
         IN  IF carry
             THEN twosComplementFrom([p EXCEPT ![i] = (inv + 1) % 256], i - 1, inv = 255)
             ELSE twosComplementFrom([p EXCEPT ![i] = inv], i - 1, FALSE)

twosComplement(p) == twosComplementFrom(p, Len(p), TRUE)

HexChars == <<"0", "1", "2", "3", "4", "5", "6", "7",
              "8", "9", "a", "b", "c", "d", "e", "f">>

\* fmt.Sprintf("%x", hash): two lowercase hex digits per byte
RECURSIVE SprintfHex(_)
SprintfHex(bs) ==
    IF bs = <<>> THEN <<>>
    ELSE <<HexChars[(Head(bs) \div 16) + 1], HexChars[(Head(bs) % 16) + 1]>>
         \o SprintfHex(Tail(bs))

\* strings.TrimLeft(s, "0")
RECURSIVE TrimLeftZero(_)
TrimLeftZero(s) ==
    IF s # <<>> /\ Head(s) = "0" THEN TrimLeftZero(Tail(s)) ELSE s

\* authDigest from the SHA-1 sum on: sign test, negation, hex, trim, sign
authDigestOfHash(h) ==
    LET negative == h[1] >= 128
        h2       == IF negative THEN twosComplement(h) ELSE h
        r        == TrimLeftZero(SprintfHex(h2))
    IN  IF negative THEN <<"-">> \o r ELSE r

authDigest(serverID, sharedSecret, publicKey) ==
    authDigestOfHash(Sha1Sum(serverID \o sharedSecret \o publicKey))

(***************************************************************************)
(* loginAuth                                                               *)
(***************************************************************************)
\* the format strings' fixed text, one character per element
PostFailText == <<"p", "o", "s", "t", " ", "f", "a", "i", "l", ":", " ">>
AuthFailText == <<"a", "u", "t", "h", " ", "f", "a", "i", "l", ":", " ">>

\* net/http: a 1xx, 204 or 304 response has no body; whatever follows its
\* header is not read into resp.Body.
bodyAllowedForStatus(code) == ~(code \div 100 = 1 \/ code = 204 \/ code = 304)

\* client.Do: the response handed to loginAuth for a status line and the
\* bytes the service sent after the header
ReadResponse(line, sent) ==
    [kind |-> "response", Status |-> line.Status, StatusCode |-> line.StatusCode,
     Body |-> IF bodyAllowedForStatus(line.StatusCode) THEN sent ELSE <<>>]

\* client.Do failing before any response: its error's text
TransportError(text) == [kind |-> "error", text |-> text]

\* the value json.Marshal is given (its text is not modelled: the request
\* struct holds only strings, which always marshal)
request(AsTk, name, UUID, digest) ==
    [accessToken |-> AsTk, selectedProfile |-> [id |-> UUID, name |-> name],
     serverId |-> digest]

\* http.NewRequest(http.MethodPost, url, body) and the two Header.Set calls
NewPostRequest(body) ==
    [Method |-> "POST",
     URL    |-> "https://sessionserver.mojang.com/session/minecraft/join",
     Header |-> [h \in {"User-Agent", "Connection"} |->
                    IF h = "User-Agent" THEN "gomcbot" ELSE "keep-alive"],
     Body   |-> body]

\* the variant that reports a transport failure with the text of an
\* authentication failure
loginAuth_SamePrefix(AsTk, name, UUID, shareSecret, er, oc) ==
    [req |-> NewPostRequest(request(AsTk, name, UUID,
                 authDigest(er.ServerID, shareSecret, er.PublicKey))),
     err |-> IF oc.kind = "error" THEN Some(AuthFailText \o oc.text)
             ELSE IF oc.Status # "204 No Content" THEN Some(AuthFailText \o oc.Body)
             ELSE Nil]

\* the variant that takes any 2xx status line for success
loginAuth_Any2xx(AsTk, name, UUID, shareSecret, er, oc) ==
    [req |-> NewPostRequest(request(AsTk, name, UUID,
                 authDigest(er.ServerID, shareSecret, er.PublicKey))),
     err |-> IF oc.kind = "error" THEN Some(PostFailText \o oc.text)
             ELSE IF oc.StatusCode \div 100 # 2 THEN Some(AuthFailText \o oc.Body)
             ELSE Nil]

\* the variant that hashes the verify token in place of the shared secret
loginAuth_WrongSecret(AsTk, name, UUID, shareSecret, er, oc) ==
    [req |-> NewPostRequest(request(AsTk, name, UUID,
                 authDigest(er.ServerID, er.VerifyToken, er.PublicKey))),
     err |-> IF oc.kind = "error" THEN Some(PostFailText \o oc.text)
             ELSE IF oc.Status # "204 No Content" THEN Some(AuthFailText \o oc.Body)
             ELSE Nil]

\* oc is what client.Do(PostRequest) produces, its Body what ioutil.ReadAll
\* returned.  json.Marshal of a struct of strings and http.NewRequest with
\* a constant method and URL do not fail, so their error returns are not
\* reached.
loginAuth(AsTk, name, UUID, shareSecret, er, oc) ==
    LET digest == authDigest(er.ServerID, shareSecret, er.PublicKey)
    IN  [req |-> NewPostRequest(request(AsTk, name, UUID, digest)),
         err |-> IF oc.kind = "error" THEN Some(PostFailText \o oc.text)
                 ELSE IF oc.Status # "204 No Content" THEN Some(AuthFailText \o oc.Body)
                 ELSE Nil]

\* the variant that makes the call before it computes the digest
loginAuthSteps_JoinFirst == <<"join", "digest">>

\* the order of loginAuth's two steps
loginAuthSteps == <<"digest", "join">>

(***************************************************************************)
(* genEncryptionKeyResponse                                                *)
(***************************************************************************)
\* Stand-in for x509.ParsePKIXPublicKey.  A SubjectPublicKeyInfo is three
\* bytes here: the SEQUENCE tag 0x30, the algorithm (1 rsaEncryption,
\* 2 id-ecPublicKey, 3 Ed25519) and, for RSA, the modulus size in bytes.
\* Anything else does not decode.
ParsePKIXPublicKey(der) ==
    IF Len(der) = 3 /\ der[1] = 48 /\ der[2] \in {1, 2, 3}
    THEN [ok |-> TRUE,
          type |-> IF der[2] = 1 THEN "*rsa.PublicKey"
                   ELSE IF der[2] = 2 THEN "*ecdsa.PublicKey" ELSE "ed25519.PublicKey",
          k |-> der[3]]
    ELSE [ok |-> FALSE, type |-> "", k |-> 0]

\* the PKCS#1 v1.5 overhead: 0x00 0x02 <at least 8 pad bytes> 0x00
Pkcs1Overhead == 11

\* Stand-in for the RSA permutation on a k-byte block, and its inverse
\* under the matching private key.
RsaPublic(k, em)  == [i \in 1..Len(em) |-> (em[i] + 7 * i + k) % 256]
RsaPrivate(k, c)  == [i \in 1..Len(c) |-> (c[i] + 256 * 8 - 7 * i - k) % 256]

\* rsa.EncryptPKCS1v15(rand.Reader, pub, msg): fails when the message does
\* not fit the modulus or the random source fails; otherwise a k-byte
\* ciphertext of 0x00 0x02 PS 0x00 msg, PS nonzero random bytes (pad).
EncryptPKCS1v15(randOK, pad, k, msg) ==
    IF Len(msg) > k - Pkcs1Overhead
    THEN [ok |-> FALSE, c |-> <<>>, cause |-> "message too long for RSA key size"]
    ELSE IF ~randOK
    THEN [ok |-> FALSE, c |-> <<>>, cause |-> "random source failed"]
    ELSE [ok |-> TRUE, cause |-> "",
          c  |-> RsaPublic(k, <<0, 2>> \o [i \in 1..(k - Len(msg) - 3) |-> pad]
                              \o <<0>> \o msg)]

\* the plaintext of a ciphertext under the matching private key
DecryptPKCS1v15(k, c) ==
    LET em == RsaPrivate(k, c)
        z  == CHOOSE i \in 3..Len(em) : em[i] = 0 /\ \A j \in 3..(i - 1) : em[j] # 0
    IN  SubSeq(em, z + 1, Len(em))

KeyResponse(pkt, err, panicked) == [erp |-> pkt, err |-> err, panicked |-> panicked]
KeyError(format, cause) == Some([format |-> format, cause |-> cause])

\* rnd: the random source's part, [fail |-> 0, 1 or 2 (the encryption at
\* which it fails, 0 for none), pad |-> the padding byte it yields]
genEncryptionKeyResponse(shareSecret, publicKey, verifyToken, rnd) ==
    LET iPK     == ParsePKIXPublicKey(publicKey)
        cryptPK == EncryptPKCS1v15(rnd.fail # 1, rnd.pad, iPK.k, shareSecret)
        verifyT == EncryptPKCS1v15(rnd.fail # 2, rnd.pad, iPK.k, verifyToken)
        data    == PackVarInt(Len(cryptPK.c)) \o cryptPK.c
                   \o PackVarInt(Len(verifyT.c)) \o verifyT.c
    IN  IF ~iPK.ok
        THEN KeyResponse(Nil, KeyError("decode public key fail: %v", "x509"), FALSE)
        ELSE IF iPK.type # "*rsa.PublicKey"
        THEN \* iPK.(*rsa.PublicKey), the one-value form: a run-time panic
             KeyResponse(Nil, Nil, TRUE)
        ELSE IF ~cryptPK.ok
        THEN KeyResponse(Nil, KeyError("encryption share secret fail: %v", cryptPK.cause), FALSE)
        ELSE IF ~verifyT.ok
        THEN KeyResponse(Nil, KeyError("encryption verfy tokenfail: %v", verifyT.cause), FALSE)
        ELSE KeyResponse(Some([ID |-> 1, Data |-> data]), Nil, FALSE)

\* the steps genEncryptionKeyResponse got to, from its result
genEncryptionKeyResponseSteps(publicKey, r) ==
    LET iPK == ParsePKIXPublicKey(publicKey)
    IN  IF ~iPK.ok \/ r.panicked THEN <<>>
        ELSE IF r.erp = Nil THEN <<"rsa">>
        ELSE <<"rsa", "packet">>

(***************************************************************************)
(* newSymmetricEncryption and the CFB8 streams                             *)
(***************************************************************************)
\* len(key): make([]byte, 16)
KeyLen == 16

\* Stand-in for the first byte of the AES encryption of a block under k
\* (CFB8 uses no other byte of it).
AesFirstByte(k, block) ==
    (SumSeq([i \in 1..Len(block) |-> (k[((i - 1) % Len(k)) + 1] + i) * (block[i] + 3)]) + 99) % 256

\* CFB8.NewCFB8Encrypt(b, iv) / CFB8.NewCFB8Decrypt(b, iv): b the block
\* cipher (its key), next the feedback register, a copy of iv
NewCFB8(b, iv, decrypt) == [b |-> b, iv |-> iv, next |-> iv, decrypt |-> decrypt]

\* XORKeyStream on one byte: the keystream byte is the first byte of the
\* encrypted register; the register shifts left by one byte and takes the
\* ciphertext byte in.
XORKeyStream1(x, src) ==
    LET dst == XorByte(AesFirstByte(x.b, x.next), src)
        c   == IF x.decrypt THEN src ELSE dst
    IN  [stream |-> [x EXCEPT !.next = Tail(x.next) \o <<c>>], dst |-> dst]

\* the variant whose decrypt stream starts from a zero IV
newSymmetricEncryption_ZeroIV(k) ==
    [key |-> k,
     decoStream |-> NewCFB8(k, [i \in 1..Len(k) |-> 0], TRUE),
     encoStream |-> NewCFB8(k, k, FALSE)]

\* k: the KeyLen bytes rand.Read put into key (aes.NewCipher accepts every
\* 16-byte key, so the panic is not reached)
newSymmetricEncryption(k) ==
    [key |-> k,
     decoStream |-> NewCFB8(k, k, TRUE),
     encoStream |-> NewCFB8(k, k, FALSE)]

\* the order of newSymmetricEncryption's two steps
newSymmetricEncryptionSteps == <<"secret", "cipher">>

(***************************************************************************)
(* Inputs                                                                  *)
(***************************************************************************)
MaxPacketLen == 6
MaxPlain == 3

SeqsUpTo(S, n) == UNION {[1..m -> S] : m \in 0..n}

\* payload bytes: lengths 0, 1, 2, a sign-bit group (8) and a continuation
\* byte with no bits (128)
PacketBytes == {0, 1, 2, 8, 128}

\* digest bytes around the sign bit and the carry
DigestBytes == {0, 1, 15, 16, 127, 128, 129, 240, 254, 255}

PlainBytes == {0, 65, 255}

\* rand.Read(key): the values drawn
Keys == {[i \in 1..KeyLen |-> 0], [i \in 1..KeyLen |-> (i * 37) % 256]}

ServerIDs == {<<>>, <<45>>}
PublicKeys == {<<48, 1, 16>>, <<48, 1, 32>>, <<48, 1, 140>>, <<48, 2, 0>>, <<1, 2, 3>>}
VerifyTokens == {<<>>, <<1, 2, 3, 4>>, [i \in 1..22 |-> i]}

\* the framing unpackEncryptionRequest expects
EncodeRequest(sid, pub, vt) ==
    PackString(sid) \o PackVarInt(Len(pub)) \o pub \o PackVarInt(Len(vt)) \o vt

\* well-formed encryption requests, and each with its last byte missing
HandshakePackets ==
    LET good == {EncodeRequest(sid, pub, vt) :
                    sid \in ServerIDs, pub \in PublicKeys, vt \in VerifyTokens}
    IN  good \cup {SubSeq(g, 1, Len(g) - 1) : g \in good}

StatusLines ==
    {[StatusCode |-> 204, Status |-> "204 No Content"],
     [StatusCode |-> 204, Status |-> "204 "],
     [StatusCode |-> 200, Status |-> "200 OK"],
     [StatusCode |-> 403, Status |-> "403 Forbidden"],
     [StatusCode |-> 500, Status |-> "500 Internal Server Error"]}
Bodies == {<<>>, <<"x">>, <<"{", "e", "}">>}
TransportTexts == {<<"x">>, <<"E", "O", "F">>}

HttpOutcomes ==
    {TransportError(t) : t \in TransportTexts}
    \cup {ReadResponse(l, b) : l \in StatusLines, b \in Bodies}

RandomSources == [fail : 0..2, pad : {1, 255}]

\* the account the caller logs in with
AsTk == "token"
PlayerName == "Steve"
UUID == "uuid"

(***************************************************************************)
(* Actions                                                                 *)
(***************************************************************************)
Idle ==
    /\ unpacked = Nil /\ res = Nil
    /\ outcome = Nil /\ PostRequest = Nil /\ loginErr = Nil /\ erp = Nil
    /\ key = Nil /\ encoStream = Nil /\ decoStream = Nil
    /\ plain = <<>> /\ wire = <<>> /\ decoded = <<>>
    /\ steps = <<>>

Unpack ==
    /\ unpacked = Nil
    /\ unpacked' = Some(unpackEncryptionRequest(packet))
    /\ steps' = steps \o <<"parse">>
    /\ UNCHANGED <<packet, digestVars, authVars, erp, cipherVars, flowVars>>

Digest ==
    /\ res = Nil
    /\ res' = Some(authDigestOfHash(hash))
    /\ UNCHANGED <<parseVars, hash, authVars, erp, cipherVars, flowVars, steps>>

\* the shared secret exists only as the key this call returns, so the
\* call precedes loginAuth; it is not made once the attempt has failed
NewSymmetricEncryption ==
    /\ key = Nil
    /\ outcome = Nil
    /\ IF unpacked = Nil THEN TRUE ELSE unpacked[1].err = Nil
    /\ \E k \in Keys :
          LET r == newSymmetricEncryption(k)
          IN  /\ key' = Some(r.key)
              /\ encoStream' = Some(r.encoStream)
              /\ decoStream' = Some(r.decoStream)
    /\ steps' = steps \o newSymmetricEncryptionSteps
    /\ UNCHANGED <<parseVars, digestVars, authVars, erp, flowVars>>

LoginAuth ==
    /\ unpacked # Nil /\ unpacked[1].err = Nil
    /\ key # Nil
    /\ outcome = Nil
    /\ \E oc \in HttpOutcomes :
          LET r == loginAuth(AsTk, PlayerName, UUID, key[1], unpacked[1].er[1], oc)
          IN  /\ outcome' = Some(oc)
              /\ PostRequest' = Some(r.req)
              /\ loginErr' = r.err
    /\ steps' = steps \o loginAuthSteps
    /\ UNCHANGED <<parseVars, digestVars, erp, cipherVars, flowVars>>

GenEncryptionKeyResponse ==
    /\ outcome # Nil /\ loginErr = Nil
    /\ erp = Nil
    /\ \E rnd \in RandomSources :
          LET er == unpacked[1].er[1]
              r  == genEncryptionKeyResponse(key[1], er.PublicKey, er.VerifyToken, rnd)
          IN  /\ erp' = Some(r)
              /\ steps' = steps \o genEncryptionKeyResponseSteps(er.PublicKey, r)
    /\ UNCHANGED <<parseVars, digestVars, authVars, cipherVars, flowVars>>

Encrypt ==
    /\ key # Nil
    /\ Len(plain) < MaxPlain
    /\ \E b \in PlainBytes :
          LET r == XORKeyStream1(encoStream[1], b)
          IN  /\ encoStream' = Some(r.stream)
              /\ plain' = Append(plain, b)
              /\ wire' = Append(wire, r.dst)
    /\ UNCHANGED <<parseVars, digestVars, authVars, erp, key, decoStream, decoded, steps>>

Decrypt ==
    /\ key # Nil
    /\ Len(decoded) < Len(wire)
    /\ LET r == XORKeyStream1(decoStream[1], wire[Len(decoded) + 1])
       IN  /\ decoStream' = Some(r.stream)
           /\ decoded' = Append(decoded, r.dst)
    /\ UNCHANGED <<parseVars, digestVars, authVars, erp, key, encoStream, plain, wire, steps>>

(***************************************************************************)
(* Specifications                                                          *)
(***************************************************************************)
\* one connection attempt
Init == packet \in HandshakePackets /\ hash = <<>> /\ Idle
Next == Unpack \/ NewSymmetricEncryption \/ LoginAuth \/ GenEncryptionKeyResponse
Spec == Init /\ [][Next]_vars

\* unpackEncryptionRequest on every payload up to MaxPacketLen bytes
InitParse == packet \in SeqsUpTo(PacketBytes, MaxPacketLen) /\ hash = <<>> /\ Idle
NextParse == Unpack
SpecParse == InitParse /\ [][NextParse]_vars

\* authDigest on every SHA-1 sum of DigestLen bytes
InitDigest == packet = <<>> /\ hash \in [1..DigestLen -> DigestBytes] /\ Idle
NextDigest == Digest
SpecDigest == InitDigest /\ [][NextDigest]_vars

\* the cipher pair in use
InitCipher == packet = <<>> /\ hash = <<>> /\ Idle
NextCipher == NewSymmetricEncryption \/ Encrypt \/ Decrypt
SpecCipher == InitCipher /\ [][NextCipher]_vars

(***************************************************************************)
(* Properties                                                              *)
(***************************************************************************)
HasPrefix(s, pre) == Len(s) >= Len(pre) /\ SubSeq(s, 1, Len(pre)) = pre
AfterPrefix(s, pre) == SubSeq(s, Len(pre) + 1, Len(s))

C2_TransportDistinctFromRejected ==
    (outcome # Nil /\ unpacked # Nil /\ key # Nil) =>
        LET oc == outcome[1]
            er == unpacked[1].er[1]
            rejected == {loginAuth(AsTk, PlayerName, UUID, key[1], er, ReadResponse(l, b)).err :
                            l \in StatusLines, b \in Bodies} \ {Nil}
        IN  /\ oc.kind = "error" =>
                  /\ loginErr # Nil
                  /\ loginErr \notin rejected
                  /\ HasPrefix(loginErr[1], PostFailText)
                  /\ ~HasPrefix(loginErr[1], AuthFailText)
            /\ (oc.kind = "response" /\ loginErr # Nil) =>
                  /\ HasPrefix(loginErr[1], AuthFailText)
                  /\ ~HasPrefix(loginErr[1], PostFailText)

\* a transport failure whose text is also a possible response body
C2_Witness ==
    /\ outcome # Nil /\ outcome[1].kind = "error" /\ outcome[1].text = <<"x">>
    /\ loginErr # Nil

\* C3: a server key that does not decode, or decodes to a key that is not
\* RSA, yields the "decode public key fail" error, no packet and no crash.
C3_InvalidServerKeyIsAnError ==
    erp # Nil =>
        LET iPK == ParsePKIXPublicKey(unpacked[1].er[1].PublicKey)
            r   == erp[1]
        IN  (~iPK.ok \/ iPK.type # "*rsa.PublicKey") =>
                /\ ~r.panicked
                /\ r.erp = Nil
                /\ r.err # Nil
                /\ r.err[1].format = "decode public key fail: %v"

\* The fields of a payload as the framing declares them: each field's
\* declared length, whether it overruns what is left, and whether it
\* decodes, in field order.
Declared(p) ==
    LET l1 == UnpackVarInt(p)
        sidFits == l1.ok /\ l1.val >= 0 /\ l1.val <= Len(l1.rest)
        sid == SubSeq(l1.rest, 1, l1.val)
        sidOK == sidFits /\ Utf8Valid(sid)
        l2 == UnpackVarInt(SubSeq(l1.rest, l1.val + 1, Len(l1.rest)))
        pubOK == sidOK /\ l2.ok /\ l2.val >= 0 /\ l2.val <= Len(l2.rest)
        pub == SubSeq(l2.rest, 1, l2.val)
        l3 == UnpackVarInt(SubSeq(l2.rest, l2.val + 1, Len(l2.rest)))
        vtOK == pubOK /\ l3.ok /\ l3.val >= 0 /\ l3.val <= Len(l3.rest)
        vt == SubSeq(l3.rest, 1, l3.val)
    IN  [sidOver |-> l1.ok /\ l1.val > Len(l1.rest),
         sidOK   |-> sidOK,
         pubOver |-> sidOK /\ l2.ok /\ l2.val > Len(l2.rest),
         pubOK   |-> pubOK,
         vtOver  |-> pubOK /\ l3.ok /\ l3.val > Len(l3.rest),
         vtOK    |-> vtOK,
         er      |-> IF vtOK THEN Some(encryptionRequest(sid, pub, vt)) ELSE Nil]

\* C4: when the declared length of serverId, publicKey or verifyToken
\* exceeds the bytes left, unpackEncryptionRequest returns an error and no
\* request; the error is that of the first field, in the order serverId,
\* publicKey, verifyToken, that does not decode; a request that is
\* returned holds every field at its full declared length.
C4_MalformedOnOverrun ==
    unpacked # Nil =>
        LET r == unpacked[1]
            d == Declared(packet)
        IN  /\ (d.sidOver \/ d.pubOver \/ d.vtOver) => (r.er = Nil /\ r.err # Nil)
            /\ ~d.sidOK => r = UnpackFail("serverId")
            /\ (d.sidOK /\ ~d.pubOK) => r = UnpackFail("publicKey")
            /\ (d.pubOK /\ ~d.vtOK) => r = UnpackFail("verifyToken")
            /\ r.er # Nil => (r.err = Nil /\ r.er = d.er /\ d.vtOK)
            /\ r.er = Nil => r.err # Nil

\* a public-key length larger than what is left of the payload
C4_Witness ==
    /\ unpacked # Nil
    /\ Declared(packet).pubOver
    /\ unpacked[1].err = Some(MalformedPacket("publicKey"))

\* the unsigned big-endian value of a byte sequence
RECURSIVE BigEndian(_)
BigEndian(bs) ==
    IF bs = <<>> THEN 0 ELSE BigEndian(SubSeq(bs, 1, Len(bs) - 1)) * 256 + bs[Len(bs)]

\* a natural number in lowercase hex, no leading zeros (0 is empty)
RECURSIVE HexOfNat(_)
HexOfNat(n) ==
    IF n = 0 THEN <<>> ELSE HexOfNat(n \div 16) \o <<HexChars[(n % 16) + 1]>>

FirstCiphertext(data) ==
    LET l1 == UnpackVarInt(data)
    IN  ReadNBytes(l1.rest, l1.val).bs

C7_PostWithThreeHeaders ==
    PostRequest # Nil =>
        LET h == PostRequest[1].Header
        IN  /\ PostRequest[1].Method = "POST"
            /\ "Content-Type" \in DOMAIN h /\ h["Content-Type"] = "application/json"
            /\ "User-Agent" \in DOMAIN h /\ h["User-Agent"] = "gomcbot"
            /\ "Connection" \in DOMAIN h /\ h["Connection"] = "keep-alive"

\* C8: both streams are keyed by the shared secret with the shared secret
\* as IV, each with a feedback register of its own, and what the decrypt
\* stream yields from the encrypt stream's output is the bytes that went in.
C8_RoundTrip ==
    key # Nil =>
        /\ encoStream[1].b = key[1] /\ encoStream[1].iv = key[1]
        /\ decoStream[1].b = key[1] /\ decoStream[1].iv = key[1]
        /\ ~encoStream[1].decrypt /\ decoStream[1].decrypt
        /\ Len(wire) = Len(plain)
        /\ decoded = SubSeq(plain, 1, Len(decoded))
        /\ Len(decoded) = Len(wire) => decoStream[1].next = encoStream[1].next

\* two bytes went through both streams while a third waits encrypted
C8_Witness ==
    /\ key # Nil
    /\ Len(plain) = 3 /\ Len(decoded) = 2
    /\ decoded = SubSeq(plain, 1, 2)
    /\ decoStream[1].next # encoStream[1].next

\* a response packet that is complete for the request er and secret k:
\* identifier 1, payload varint(len) ciphertext of the shared secret,
\* varint(len) ciphertext of the verify token, nothing else
CompletePacket(pkt, er, k) ==
    LET iPK == ParsePKIXPublicKey(er.PublicKey)
        l1  == UnpackVarInt(pkt.Data)
        c1  == ReadNBytes(l1.rest, l1.val)
        l2  == UnpackVarInt(c1.rest)
        c2  == ReadNBytes(l2.rest, l2.val)
    IN  /\ pkt.ID = 1
        /\ l1.ok /\ c1.ok /\ l2.ok /\ c2.ok /\ c2.rest = <<>>
        /\ l1.val = iPK.k /\ l2.val = iPK.k
        /\ pkt.Data = PackVarInt(iPK.k) \o c1.bs \o PackVarInt(iPK.k) \o c2.bs
        /\ DecryptPKCS1v15(iPK.k, c1.bs) = k
        /\ DecryptPKCS1v15(iPK.k, c2.bs) = er.VerifyToken

\* C9: on every outcome genEncryptionKeyResponse returns either an error
\* with no packet or a complete packet (identifier 1, the two
\* length-prefixed ciphertexts in order) with no error; a verify token that
\* does not encrypt, after the shared secret did, returns no packet.
C9_ErrorOrCompletePacket ==
    erp # Nil =>
        LET r   == erp[1]
            er  == unpacked[1].er[1]
            iPK == ParsePKIXPublicKey(er.PublicKey)
        IN  /\ ~r.panicked
            /\ (r.err # Nil /\ r.erp = Nil)
               \/ (r.err = Nil /\ r.erp # Nil /\ CompletePacket(r.erp[1], er, key[1]))
            /\ (iPK.ok /\ iPK.type = "*rsa.PublicKey"
                  /\ Len(er.VerifyToken) > iPK.k - Pkcs1Overhead) =>
                  (r.erp = Nil /\ r.err # Nil)

\* What does hold of every outcome: a packet, when there is one, is
\* complete and comes with no error; an error or a crash comes with no
\* packet.
NoPartialPacket ==
    erp # Nil =>
        LET r  == erp[1]
            er == unpacked[1].er[1]
        IN  /\ (r.err # Nil \/ r.panicked) => r.erp = Nil
            /\ r.erp # Nil => (r.err = Nil /\ CompletePacket(r.erp[1], er, key[1]))
            /\ r.panicked <=> (ParsePKIXPublicKey(er.PublicKey).ok
                                 /\ ParsePKIXPublicKey(er.PublicKey).type # "*rsa.PublicKey")

\* where a step stands in the attempt, 0 when it has not happened
Pos(e) ==
    IF \E i \in 1..Len(steps) : steps[i] = e
    THEN CHOOSE i \in 1..Len(steps) : steps[i] = e
    ELSE 0
Before(a, b) == Pos(b) > 0 => (Pos(a) > 0 /\ Pos(a) < Pos(b))
Once(e) == Cardinality({i \in 1..Len(steps) : steps[i] = e}) <= 1

====
